---- MODULE Spec2Model ----
(***************************************************************************)
(* LayerCompressor (llmcompressor/modifiers/utils/layer_compressor.py):    *)
(* the module tree of a model, the wrappers and hooks a LayerCompressor    *)
(* installs on one layer of it, and the calls it makes on the wrappers.    *)
(* Module objects are named by strings (object identity); a dotted module  *)
(* path is the sequence of its segments, "" being the empty sequence.      *)
(***************************************************************************)
EXTENDS Integers, Sequences, FiniteSets, TLC

VARIABLES
    children,           \* Module._modules of every live module object: name -> child, ordered
    fwd_hooks,          \* Module._forward_hooks of every module: <<[id, name]>> (the add_batch(name) closures)
    pre_hooks,          \* Module._forward_pre_hooks of every module: <<id>> (trigger_early_stop_fn)
    next_id,            \* RemovableHandle.next_id
    wrappers,           \* the ModuleCompressionWrapper objects created so far: id -> [name]
    calls,              \* every add_batch / compress / free invoked on a wrapper, in order
    layer,              \* LayerCompressor.layer
    name,               \* LayerCompressor.name (path of the layer in the model)
    handles,            \* LayerCompressor.handles
    early_stop_handle,  \* LayerCompressor.early_stop_handle
    modules,            \* LayerCompressor.modules (None after revert_layer_wrappers)
    dataset,            \* the calibration samples
    ops,                \* the operations called so far, in order
    exc,                \* the exception the last operation raised ("" when it returned)
    outputs,            \* what the last calibrate_layer returned
    captured,           \* the intermediates the last calibration forward captured from EarlyStop
    trace,              \* the forward computations of the last operation: <<[mod, src]>>
    calls_pre,          \* Len(calls) when the last operation was called
    children_pre,       \* children when the last operation was called
    layer_pre,          \* self.layer when the last operation was called
    events,             \* what the last operation did with gathering contexts, swaps and hooks, in order
    fail_at,            \* the wrapper construction made to raise in the last operation (0: none)
    unquantized,        \* get_output_error: its first argument
    quantized,          \* get_output_error: its second argument
    error,              \* get_output_error: what the call did
    DATASET_MAPPINGS,   \* neuralmagicML.datasets.utils.DATASET_MAPPINGS
    request,            \* create_dataset: its arguments
    created             \* create_dataset: what the call did

vars == <<children, fwd_hooks, pre_hooks, next_id, wrappers, calls, layer, name,
          handles, early_stop_handle, modules, dataset, ops, exc, outputs,
          captured, trace, calls_pre, children_pre, layer_pre, events, fail_at,
          unquantized, quantized, error, DATASET_MAPPINGS, request, created>>

\* the variables of the LayerCompressor and of the model it works on
lc_vars == <<children, fwd_hooks, pre_hooks, next_id, wrappers, calls, layer, name,
             handles, early_stop_handle, modules, dataset, ops, exc, outputs,
             captured, trace, calls_pre, children_pre, layer_pre, events, fail_at>>
\* the variables of get_output_error and of create_dataset
error_vars == <<unquantized, quantized, error>>
dataset_vars == <<DATASET_MAPPINGS, request, created>>

\* ------------------------------------------------------------------ bounds
MaxOps == 5
MaxSamples == 2
MaxEntries == 2

\* ------------------------------------------------------- the module tree
\* The model: a decoder block (two Linear sub-modules, one of them nested, and
\* a norm), a final norm with nothing to compress, and an lm_head that is
\* itself the Linear to compress (the empty relative name).
InitChildren ==
    [m \in {"model", "decoder", "attn", "q", "ln", "fc", "ln_f", "lm_head"} |->
        CASE m = "model" -> << [name |-> "layers0", mod |-> "decoder"],
                              [name |-> "norm", mod |-> "ln_f"],
                              [name |-> "lm_head", mod |-> "lm_head"] >>
          [] m = "decoder" -> << [name |-> "self_attn", mod |-> "attn"],
                                [name |-> "input_layernorm", mod |-> "ln"],
                                [name |-> "mlp", mod |-> "fc"] >>
          [] m = "attn" -> << [name |-> "q_proj", mod |-> "q"] >>
          [] OTHER -> << >>]

\* the module types get_prunable_layers selects (torch.nn.Linear instances)
Linear == {"q", "fc", "lm_head"}

\* the layers a LayerCompressor is built on: [layer, name]
Targets ==
    { [layer |-> "decoder", name |-> <<"layers0">>],
      [layer |-> "ln_f", name |-> <<"norm">>],
      [layer |-> "lm_head", name |-> <<"lm_head">>] }

Missing == "<missing>"

\* getattr(obj, nm) on a module: the child registered under nm
getattr(ch, obj, nm) ==
    IF obj = Missing \/ ~ \E i \in 1..Len(ch[obj]) : ch[obj][i].name = nm
    THEN Missing
    ELSE ch[obj][CHOOSE i \in 1..Len(ch[obj]) : ch[obj][i].name = nm].mod

\* operator.attrgetter(path)(obj): getattr along a dotted path
RECURSIVE attrgetter(_, _, _)
attrgetter(ch, obj, path) ==
    IF path = << >> THEN obj
    ELSE attrgetter(ch, getattr(ch, obj, Head(path)), Tail(path))

\* setattr(obj, nm, new) on a module: the entry keeps its position
setattr(ch, obj, nm, new) ==
    [ch EXCEPT ![obj] = [i \in 1..Len(@) |->
        IF @[i].name = nm THEN [name |-> nm, mod |-> new] ELSE @[i]]]

Front(path) == SubSeq(path, 1, Len(path) - 1)
Last(s) == s[Len(s)]

\* torch Module.named_modules(): pre-order, names prefixed by the path
RECURSIVE named_modules(_, _, _), named_members(_, _, _, _)
named_modules(ch, obj, prefix) ==
    << [name |-> prefix, mod |-> obj] >> \o named_members(ch, ch[obj], prefix, 1)
named_members(ch, kids, prefix, i) ==
    IF i > Len(kids) THEN << >>
    ELSE named_modules(ch, kids[i].mod, Append(prefix, kids[i].name))
         \o named_members(ch, kids, prefix, i + 1)

\* get_prunable_layers(layer): the Linear modules of the layer, by relative name
get_prunable_layers(ch, lyr) ==
    SelectSeq(named_modules(ch, lyr, << >>), LAMBDA e : e.mod \in Linear)

\* fix_fsdp_module_name: drops the FSDP wrapper segments of a path
fix_fsdp_module_name(path) ==
    SelectSeq(path, LAMBDA seg : seg # "_fsdp_wrapped_module")

\* LayerCompressor._get_full_submodule_name
get_full_submodule_name(self_name, nm) ==
    fix_fsdp_module_name(
        (IF Len(self_name) > 0 THEN self_name ELSE << >>)
        \o (IF Len(nm) > 0 THEN nm ELSE << >>))

\* ------------------------------------------------------ python dict (ordered)
DictHas(items, k) == \E i \in 1..Len(items) : items[i].name = k
DictGet(items, k) == items[CHOOSE i \in 1..Len(items) : items[i].name = k]
DictSet(items, k, e) ==
    IF DictHas(items, k)
    THEN [i \in 1..Len(items) |-> IF items[i].name = k THEN e ELSE items[i]]
    ELSE Append(items, e)

\* ------------------------------------------------------------ tensors
Tensor(s, dev) == [src |-> s, path |-> << >>, dev |-> dev]
Kwargs(s, dev) == [tag |-> s, dev |-> dev]
tensors_to_device(t, dev) == [t EXCEPT !.dev = dev]
get_execution_device(lyr) == "cuda"
NoTensor == [src |-> 0, path |-> << >>, dev |-> "none"]
NoKwargs == [tag |-> 0, dev |-> "none"]

\* the calibration sets: n samples, n = 0..MaxSamples, listed n, n-1, .., 1
Datasets == { [i \in 1..n |-> n + 1 - i] : n \in 0..MaxSamples }

\* the captured intermediates handed to calibrate_layer: (args, kwargs) per sample
Intermediates(ds) ==
    [i \in 1..Len(ds) |-> [args |-> Tensor(ds[i], "cpu"), kwargs |-> Kwargs(ds[i], "cpu")]]

\* ------------------------------------------------------- program state
\* The whole state as one record, threaded through the statements of a
\* method; exc is the exception in flight ("" when none), out and payload
\* the value a call returned and the arguments an EarlyStopException carries.
Here ==
    [children |-> children, fwd_hooks |-> fwd_hooks, pre_hooks |-> pre_hooks,
     next_id |-> next_id, wrappers |-> wrappers, calls |-> calls,
     layer |-> layer, handles |-> handles,
     early_stop_handle |-> early_stop_handle, modules |-> modules,
     trace |-> << >>, exc |-> "", out |-> NoTensor,
     payload |-> [args |-> NoTensor, kwargs |-> NoKwargs],
     outputs |-> << >>, captured |-> << >>,
     events |-> << >>, fail_at |-> 0, injected |-> 0]

raise(st, e) == [st EXCEPT !.exc = e]

\* the record of one step of an operation: entering or leaving a gathering
\* context of module obj, constructing wrapper obj, set_layer of obj at
\* relative name nm, a statistics hook of name nm firing and finding wrapper obj
log(st, ev, obj, nm) ==
    [st EXCEPT !.events = Append(@, [ev |-> ev, obj |-> obj, nm |-> nm])]

\* summon_full_params_context(module): __enter__ and __exit__ of the with block
summon_enter(st, m) == log(st, "enter", m, << >>)
summon_exit(st, m) == log(st, "exit", m, << >>)

IsWrapper(st, obj) == obj \in DOMAIN st.wrappers

\* ------------------------------------------- ModuleCompressionWrapper
WrapperId(k) == "w" \o ToString(k)

\* a wrapper is Freed once free() was invoked on it
Freed(cs, w) == \E i \in 1..Len(cs) : cs[i].w = w /\ cs[i].op = "free"

\* add_batch / compress / free on wrapper w: the call is made, and is invalid
\* (raises) once the wrapper is Freed
wrapper_call(st, w, op, src) ==
    LET s1 == [st EXCEPT !.calls = Append(@, [w |-> w, op |-> op, src |-> src])]
    IN IF Freed(st.calls, w) THEN raise(s1, "FreedWrapperError") ELSE s1

\* module_compressor_class(full_name, layer): a new module w whose only child,
\* "layer", is the wrapped module
NextWrapper(st) == WrapperId(Cardinality(DOMAIN st.wrappers) + 1)
new_wrapper(st, w, full_name, lyr) ==
    [st EXCEPT !.wrappers = @ @@ (w :> [name |-> full_name]),
               !.children = @ @@ (w :> << [name |-> "layer", mod |-> lyr] >>),
               !.fwd_hooks = @ @@ (w :> << >>),
               !.pre_hooks = @ @@ (w :> << >>)]

\* set_layer(name, new, owner): walk to the parent, replace the last segment
set_layer(st, path, new, owner) ==
    LET parent == IF path = << >> THEN Missing
                  ELSE attrgetter(st.children, owner, Front(path))
    IN IF parent = Missing \/ getattr(st.children, parent, Last(path)) = Missing
       THEN raise(st, "AttributeError")
       ELSE [st EXCEPT !.children = setattr(@, parent, Last(path), new)]

\* ------------------------------------------------------------- hooks
\* Module.register_forward_hook(add_batch(nm)) on obj; the handle is [obj, id]
register_forward_hook(st, obj, nm) ==
    [st EXCEPT !.fwd_hooks[obj] = Append(@, [id |-> st.next_id, name |-> nm]),
               !.next_id = @ + 1]

\* Module.register_forward_pre_hook(trigger_early_stop_fn) on obj
register_forward_pre_hook(st, obj) ==
    [st EXCEPT !.pre_hooks[obj] = Append(@, st.next_id),
               !.next_id = @ + 1]

\* RemovableHandle.remove() for a forward hook / a forward pre-hook
remove_forward_hook(hooks, h) ==
    [hooks EXCEPT ![h.obj] = SelectSeq(@, LAMBDA e : e.id # h.id)]
remove_forward_pre_hook(hooks, h) ==
    [hooks EXCEPT ![h.obj] = SelectSeq(@, LAMBDA e : e # h.id)]

NoHandle == [set |-> FALSE, obj |-> "", id |-> 0]

\* mutant: the signal carries the positional arguments only
trigger_early_stop_fn_no_kwargs(st, args, kwargs) ==
    [raise(st, "EarlyStopException") EXCEPT
        !.payload = [args |-> args, kwargs |-> NoKwargs]]

\* trigger_early_stop_fn(self, args, kwargs): raise EarlyStopException(args, kwargs)
trigger_early_stop_fn(st, args, kwargs) ==
    [raise(st, "EarlyStopException") EXCEPT
        !.payload = [args |-> args, kwargs |-> kwargs]]

\* the hook pre_compress registers, add_batch(nm).tmp(_, inp, out):
\* self.modules[nm].add_batch(inp[0].data, out.data)
tmp(st, nm, inp, out) ==
    IF st.modules.none THEN raise(log(st, "hook", Missing, nm), "TypeError")
    ELSE IF ~ DictHas(st.modules.items, nm) THEN raise(log(st, "hook", Missing, nm), "KeyError")
    ELSE LET w == DictGet(st.modules.items, nm).wrapper
         IN wrapper_call(log(st, "hook", w, nm), w, "add_batch", inp.src)

\* ------------------------------------------------- torch Module.__call__
\* pre-hooks, then forward, then forward hooks. A module without children
\* computes; a module with children (a block, the model, a wrapper, whose
\* forward is self.layer(*args, **kwargs)) calls them in order.
RECURSIVE module_call(_, _, _, _), forward_members(_, _, _, _, _), forward_hooks(_, _, _, _, _)
module_call(st, obj, x, kw) ==
    IF st.exc # "" THEN st
    ELSE IF st.pre_hooks[obj] # << >> THEN trigger_early_stop_fn(st, x, kw)
    ELSE LET s0 == [st EXCEPT !.trace = Append(@, [mod |-> obj, src |-> x.src])]
             kids == s0.children[obj]
             s1 == IF kids = << >>
                   THEN [s0 EXCEPT !.out = [x EXCEPT !.path = Append(@, obj)]]
                   ELSE forward_members(s0, kids, x, kw, 1)
         IN IF s1.exc # "" THEN s1
            ELSE forward_hooks(s1, s1.fwd_hooks[obj], x, s1.out, 1)
forward_members(st, kids, x, kw, i) ==
    IF i > Len(kids) THEN [st EXCEPT !.out = x]
    ELSE LET s1 == module_call(st, kids[i].mod, x, kw)
         IN IF s1.exc # "" THEN s1
            ELSE forward_members(s1, kids, s1.out, kw, i + 1)
forward_hooks(st, hooks, inp, out, i) ==
    IF i > Len(hooks) \/ st.exc # "" THEN st
    ELSE forward_hooks(tmp(st, hooks[i].name, inp, out), hooks, inp, out, i + 1)

\* torch Module.apply(fn): the children first, then the module itself
RECURSIVE apply_order(_, _), apply_members(_, _, _)
apply_order(ch, obj) == apply_members(ch, ch[obj], 1) \o << obj >>
apply_members(ch, kids, i) ==
    IF i > Len(kids) THEN << >>
    ELSE apply_order(ch, kids[i].mod) \o apply_members(ch, kids, i + 1)

\* ======================================================= LayerCompressor
\* mutant: every module of the layer is taken, prunable or not
compressible_modules_all(st) == named_modules(st.children, st.layer, << >>)

\* compressible_modules(): get_prunable_layers(self.layer)
compressible_modules(st) == get_prunable_layers(st.children, st.layer)

\* set_early_stop()
set_early_stop(st) ==
    [register_forward_pre_hook(st, st.layer) EXCEPT
        !.early_stop_handle = [set |-> TRUE, obj |-> st.layer, id |-> st.next_id]]

\* clear_early_stop()
clear_early_stop(st) ==
    IF st.early_stop_handle.set
    THEN [st EXCEPT !.pre_hooks = remove_forward_pre_hook(@, st.early_stop_handle),
                    !.early_stop_handle = NoHandle]
    ELSE st

\* mutant: the swap on the root model is made without its gathering context
wrap_module_unscoped_root(st, self_name, nm, lyr) ==
    LET full_name == get_full_submodule_name(self_name, nm)
        w == NextWrapper(st)
        s1 == log(new_wrapper(summon_enter(st, st.layer), w, full_name, lyr),
                  "construct", w, nm)
        s2 == summon_exit(s1, st.layer)
        s3 == IF Len(nm) = 0
              THEN set_layer(log(s2, "set_layer", w, nm), full_name, w, "model")
              ELSE set_layer(log(s2, "set_layer", w, nm), nm, w, s2.layer)
    IN IF s3.exc # "" THEN s3
       ELSE IF s3.modules.none THEN raise(s3, "TypeError")
       ELSE [s3 EXCEPT !.modules.items = DictSet(@, nm, [name |-> nm, wrapper |-> w])]

\* pre_compress(), the body of the first loop for one (nm, lyr) of subset:
\* build the wrapper, install it, record it in self.modules
\* (the construction is inside the context of self.layer; the construction
\* that st.fail_at counts down to raises)
wrap_module(st, self_name, nm, lyr) ==
    LET full_name == get_full_submodule_name(self_name, nm)
        w == NextWrapper(st)
        s0 == summon_enter(st, st.layer)
        s1 == IF s0.fail_at = 1
              THEN raise([s0 EXCEPT !.fail_at = 0], "RuntimeError")
              ELSE log(new_wrapper([s0 EXCEPT !.fail_at = IF @ > 0 THEN @ - 1 ELSE 0],
                                   w, full_name, lyr),
                       "construct", w, nm)
        s2 == summon_exit(s1, st.layer)
        s3 == IF s2.exc # "" THEN s2
              ELSE IF Len(nm) = 0
              THEN summon_exit(
                       set_layer(log(summon_enter(s2, "model"), "set_layer", w, nm),
                                 full_name, w, "model"),
                       "model")
              ELSE set_layer(log(s2, "set_layer", w, nm), nm, w, s2.layer)
    IN IF s3.exc # "" THEN s3
       ELSE IF s3.modules.none THEN raise(s3, "TypeError")
       ELSE [s3 EXCEPT !.modules.items = DictSet(@, nm, [name |-> nm, wrapper |-> w])]

\* mutant: after a failure the loop goes on with the next modules and the
\* exception is raised at the end
RECURSIVE wrap_modules_continue(_, _, _, _)
wrap_modules_continue(st, self_name, subset, i) ==
    IF i > Len(subset) THEN st
    ELSE LET s1 == wrap_module([st EXCEPT !.exc = ""], self_name,
                               subset[i].name, subset[i].mod)
         IN wrap_modules_continue([s1 EXCEPT !.exc = IF st.exc # "" THEN st.exc ELSE @],
                                  self_name, subset, i + 1)

RECURSIVE wrap_modules(_, _, _, _)
wrap_modules(st, self_name, subset, i) ==
    IF i > Len(subset) \/ st.exc # "" THEN st
    ELSE wrap_modules(wrap_module(st, self_name, subset[i].name, subset[i].mod),
                      self_name, subset, i + 1)

\* mutant: the hook closure reads the loop variable when it fires, so every
\* hook feeds the wrapper of the last name
hook_module_late_binding(st, subset, nm) ==
    IF ~ DictHas(subset, nm) THEN raise(st, "KeyError")
    ELSE LET obj == DictGet(subset, nm).mod
         IN [register_forward_hook(st, obj, Last(st.modules.items).name) EXCEPT
                !.handles = Append(@, [obj |-> obj, id |-> st.next_id])]

\* pre_compress(), the body of the second loop for one name of self.modules:
\* self.handles.append(subset[name].register_forward_hook(add_batch(name)))
hook_module(st, subset, nm) ==
    IF ~ DictHas(subset, nm) THEN raise(st, "KeyError")
    ELSE LET obj == DictGet(subset, nm).mod
         IN [register_forward_hook(st, obj, nm) EXCEPT
                !.handles = Append(@, [obj |-> obj, id |-> st.next_id])]

RECURSIVE hook_modules(_, _, _, _)
hook_modules(st, subset, keys, i) ==
    IF i > Len(keys) \/ st.exc # "" THEN st
    ELSE hook_modules(hook_module(st, subset, keys[i].name), subset, keys, i + 1)

\* pre_compress()
pre_compress(st, self_name) ==
    LET subset == compressible_modules(st)
        s1 == wrap_modules(st, self_name, subset, 1)
        s2 == [s1 EXCEPT !.layer = attrgetter(s1.children, "model", self_name)]
    IN IF s1.exc # "" THEN s1
       ELSE IF s2.modules.none THEN raise(s2, "TypeError")
       ELSE hook_modules(s2, subset, s2.modules.items, 1)

\* mutant: the keyword arguments kept are the ones moved to the device
calibrate_sample_device_kwargs(st, item) ==
    LET device == get_execution_device(st.layer)
        s1 == module_call(st, st.layer, tensors_to_device(item.args, device),
                          tensors_to_device(item.kwargs, device))
    IN IF s1.exc # "" THEN s1
       ELSE [s1 EXCEPT !.outputs = Append(@,
                [output |-> tensors_to_device(s1.out, "cpu"),
                 kwargs |-> tensors_to_device(item.kwargs, device)])]

\* calibrate_layer(intermediates), the body of the loop for one idx
calibrate_sample(st, item) ==
    LET device == get_execution_device(st.layer)
        s1 == module_call(st, st.layer, tensors_to_device(item.args, device),
                          tensors_to_device(item.kwargs, device))
    IN IF s1.exc # "" THEN s1
       ELSE [s1 EXCEPT !.outputs = Append(@,
                [output |-> tensors_to_device(s1.out, "cpu"), kwargs |-> item.kwargs])]

\* calibrate_layer(intermediates)
RECURSIVE calibrate_layer(_, _, _)
calibrate_layer(st, intermediates, idx) ==
    IF idx > Len(intermediates) \/ st.exc # "" THEN st
    ELSE calibrate_layer(calibrate_sample(st, intermediates[idx]), intermediates, idx + 1)

\* handle.remove() for each handle of a list
RECURSIVE remove_handles(_, _, _)
remove_handles(hooks, hs, i) ==
    IF i > Len(hs) THEN hooks
    ELSE remove_handles(remove_forward_hook(hooks, hs[i]), hs, i + 1)

\* mutant: the handle list is cleared and the hooks stay registered
post_compress_keeps_hooks(st) == [st EXCEPT !.handles = << >>]

\* post_compress()
post_compress(st) ==
    [st EXCEPT !.fwd_hooks = remove_handles(@, st.handles, 1),
               !.handles = << >>]

\* mutant: the wrapper is put back instead of the module it wraps
revert_module_keeps_wrapper(st, self_name, nm, w) ==
    LET full_name == get_full_submodule_name(self_name, nm)
    IN IF Len(nm) = 0
       THEN set_layer(st, full_name, w, "model")
       ELSE set_layer(st, nm, w, st.layer)

\* revert_layer_wrappers(), the body of the loop for one (nm, module_wrapper)
revert_module(st, self_name, nm, w) ==
    LET full_name == get_full_submodule_name(self_name, nm)
        original == getattr(st.children, w, "layer")
    IN IF Len(nm) = 0
       THEN summon_exit(
                set_layer(log(summon_enter(st, "model"), "set_layer", original, nm),
                          full_name, original, "model"),
                "model")
       ELSE set_layer(log(st, "set_layer", original, nm), nm, original, st.layer)

RECURSIVE revert_modules(_, _, _, _)
revert_modules(st, self_name, items, i) ==
    IF i > Len(items) \/ st.exc # "" THEN st
    ELSE revert_modules(revert_module(st, self_name, items[i].name, items[i].wrapper),
                        self_name, items, i + 1)

\* revert_layer_wrappers()
revert_layer_wrappers(st, self_name) ==
    IF st.modules.none THEN raise(st, "AttributeError")
    ELSE LET s1 == revert_modules(st, self_name, st.modules.items, 1)
         IN IF s1.exc # "" THEN s1
            ELSE [s1 EXCEPT !.modules = [none |-> TRUE, items |-> << >>]]

\* mutant: the wrapper is compressed and its statistics are never freed
compress_module_no_free(st, m) ==
    IF IsWrapper(st, m) THEN wrapper_call(st, m, "compress", 0) ELSE st

\* compress(), compress_module(module)
compress_module(st, m) ==
    IF IsWrapper(st, m)
    THEN LET s1 == wrapper_call(st, m, "compress", 0)
         IN IF s1.exc # "" THEN s1 ELSE wrapper_call(s1, m, "free", 0)
    ELSE st

RECURSIVE apply(_, _, _)
apply(st, order, i) ==
    IF i > Len(order) \/ st.exc # "" THEN st
    ELSE apply(compress_module(st, order[i]), order, i + 1)

\* compress(): self.layer.apply(compress_module)
compress(st) == apply(st, apply_order(st.children, st.layer), 1)

\* the calibration driver: one full-model forward per sample, the EarlyStop
\* signal caught per sample and its (args, kwargs) kept
RECURSIVE run_calibration_forward(_, _, _)
run_calibration_forward(st, ds, i) ==
    IF i > Len(ds) \/ st.exc # "" THEN st
    ELSE LET s1 == module_call(st, "model", Tensor(ds[i], "cuda"), Kwargs(ds[i], "cuda"))
             s2 == IF s1.exc = "EarlyStopException"
                   THEN [s1 EXCEPT !.exc = "", !.captured = Append(@, s1.payload)]
                   ELSE s1
         IN run_calibration_forward(s2, ds, i + 1)

\* ====================================================== get_output_error
\* an element of a flattened output list: a tensor of dimension 0 or 1 with
\* its values, or None
NoneOutput == [kind |-> "none", dim |-> 0, val |-> << >>]
Scalar(v) == [kind |-> "tensor", dim |-> 0, val |-> << v >>]
Vector(vs) == [kind |-> "tensor", dim |-> 1, val |-> vs]

\* the outputs of one paired entry: one element, or a tuple of elements
Single(e) == [kind |-> e.kind, dim |-> e.dim, val |-> e.val, items |-> << >>]
Tuple(es) == [kind |-> "tuple", dim |-> 0, val |-> << >>, items |-> es]

\* isinstance(outputs, Iterable): a tuple is, and so is a torch.Tensor
IsIterable(o) == o.kind \in {"tuple", "tensor"}
\* isinstance(_, torch.Tensor)
IsTensor(e) == e.kind = "tensor"

\* [output for output in outputs] if isinstance(outputs, Iterable) else [outputs]:
\* a tuple gives its elements, a tensor its slices along the first dimension
\* (a tensor of dimension 0 cannot be iterated), anything else itself
outputs_list(o) ==
    IF ~ IsIterable(o)
    THEN [exc |-> "", outs |-> << [kind |-> o.kind, dim |-> o.dim, val |-> o.val] >>]
    ELSE IF o.kind = "tuple" THEN [exc |-> "", outs |-> o.items]
    ELSE IF o.dim = 0 THEN [exc |-> "TypeError", outs |-> << >>]
    ELSE [exc |-> "", outs |-> [i \in 1..Len(o.val) |-> Scalar(o.val[i])]]

\* sum([... for outputs, _ in entries], start=[])
RECURSIVE flatten(_, _)
flatten(entries, i) ==
    IF i > Len(entries) THEN [exc |-> "", outs |-> << >>]
    ELSE LET head == outputs_list(entries[i][1])
             rest == flatten(entries, i + 1)
         IN IF head.exc # "" THEN head
            ELSE IF rest.exc # "" THEN rest
            ELSE [exc |-> "", outs |-> head.outs \o rest.outs]

Abs(x) == IF x < 0 THEN 0 - x ELSE x
RECURSIVE SumTo(_, _)
SumTo(f, n) == IF n = 0 THEN 0 ELSE f[n] + SumTo(f, n - 1)

\* torch.nn.functional.l1_loss(a, b): the mean of |a - b| as the fraction
\* num / den, a one-element operand broadcast to the other; it raises when
\* the target is not a tensor or the sizes cannot be broadcast
l1_loss(a, b) ==
    IF ~ IsTensor(b) THEN [exc |-> "AttributeError", num |-> 0, den |-> 1]
    ELSE LET la == Len(a.val)
             lb == Len(b.val)
             n == IF la > lb THEN la ELSE lb
             at(t, i) == t.val[IF Len(t.val) = 1 THEN 1 ELSE i]
         IN IF la # lb /\ la # 1 /\ lb # 1
            THEN [exc |-> "RuntimeError", num |-> 0, den |-> 1]
            ELSE [exc |-> "",
                  num |-> SumTo([i \in 1..n |-> Abs(at(a, i) - at(b, i))], n),
                  den |-> n]

\* sum([l1_loss(unq, q) for unq, q in zip(...) if isinstance(unq, torch.Tensor)])
\* as a fraction; the list is built first, so the first failing l1_loss raises
RECURSIVE losses(_, _, _)
losses(unq, q, i) ==
    IF i > Len(unq) THEN [exc |-> "", num |-> 0, den |-> 1]
    ELSE IF ~ IsTensor(unq[i]) THEN losses(unq, q, i + 1)
    ELSE LET l == l1_loss(unq[i], q[i])
             rest == losses(unq, q, i + 1)
         IN IF l.exc # "" THEN l
            ELSE IF rest.exc # "" THEN rest
            ELSE [exc |-> "", num |-> l.num * rest.den + rest.num * l.den,
                  den |-> l.den * rest.den]

CountTensors(outs) == Len(SelectSeq(outs, IsTensor))
Raised(e) == [called |-> TRUE, exc |-> e, num |-> 0, den |-> 1]

\* mutant: the tensor counts are compared before the lengths
get_output_error_assert_first(unq_arg, q_arg) ==
    LET fu == flatten(unq_arg, 1)
        fq == flatten(q_arg, 1)
        num_unq == CountTensors(fu.outs)
        num_q == CountTensors(fq.outs)
        total == losses(fu.outs, fq.outs, 1)
    IN IF fu.exc # "" THEN Raised(fu.exc)
       ELSE IF fq.exc # "" THEN Raised(fq.exc)
       ELSE IF num_q # num_unq THEN Raised("AssertionError")
       ELSE IF Len(fu.outs) # Len(fq.outs) THEN Raised("ValueError")
       ELSE IF total.exc # "" THEN Raised(total.exc)
       ELSE IF num_q = 0 THEN Raised("ZeroDivisionError")
       ELSE [called |-> TRUE, exc |-> "", num |-> total.num, den |-> total.den * num_q]

\* mutant: the numbers of paired entries are compared, not the flattened lengths
get_output_error_entry_counts(unq_arg, q_arg) ==
    LET fu == flatten(unq_arg, 1)
        fq == flatten(q_arg, 1)
        num_unq == CountTensors(fu.outs)
        num_q == CountTensors(fq.outs)
        total == losses(fu.outs, fq.outs, 1)
    IN IF fu.exc # "" THEN Raised(fu.exc)
       ELSE IF fq.exc # "" THEN Raised(fq.exc)
       ELSE IF Len(unq_arg) # Len(q_arg) THEN Raised("ValueError")
       ELSE IF num_q # num_unq THEN Raised("AssertionError")
       ELSE IF total.exc # "" THEN Raised(total.exc)
       ELSE IF num_q = 0 THEN Raised("ZeroDivisionError")
       ELSE [called |-> TRUE, exc |-> "", num |-> total.num, den |-> total.den * num_q]

\* get_output_error(unquantized, quantized): the result is the fraction
\* num / den (the sum of no losses is the integer 0, and 0 / 0 raises)
get_output_error(unq_arg, q_arg) ==
    LET fu == flatten(unq_arg, 1)
        fq == flatten(q_arg, 1)
        num_unq == CountTensors(fu.outs)
        num_q == CountTensors(fq.outs)
        total == losses(fu.outs, fq.outs, 1)
    IN IF fu.exc # "" THEN Raised(fu.exc)
       ELSE IF fq.exc # "" THEN Raised(fq.exc)
       ELSE IF Len(fu.outs) # Len(fq.outs) THEN Raised("ValueError")
       ELSE IF num_q # num_unq THEN Raised("AssertionError")
       ELSE IF total.exc # "" THEN Raised(total.exc)
       ELSE IF num_q = 0 THEN Raised("ZeroDivisionError")
       ELSE [called |-> TRUE, exc |-> "", num |-> total.num, den |-> total.den * num_q]

\* the outputs an entry may hold, and the paired sequences of up to
\* MaxEntries entries (outputs, kwargs)
OutputsPool ==
    { Single(NoneOutput),
      Single(Vector(<< 0, 1 >>)),
      Single(Scalar(1)),
      Tuple(<< >>),
      Tuple(<< Vector(<< 1 >>) >>),
      Tuple(<< Vector(<< 0, 1 >>), NoneOutput >>),
      Tuple(<< NoneOutput, Vector(<< 1, 1 >>) >>) }
RECURSIVE PairedOfLen(_)
PairedOfLen(n) ==
    IF n = 0 THEN { << >> }
    ELSE { Append(p, << o, "kwargs" >>) : p \in PairedOfLen(n - 1), o \in OutputsPool }
Paired == UNION { PairedOfLen(n) : n \in 0..MaxEntries }

\* ========================================================= create_dataset
NotCreated ==
    [called |-> FALSE, exc |-> "", constructed |-> << >>, dataset |-> << >>,
     num_classes |-> 0]

\* constructor(root=root, train=train, rand_trans=rand_trans, **kwargs): the
\* call is recorded, and the dataset it returns is known by the call
construct(cr, constructor, req) ==
    LET made == [constructor |-> constructor, root |-> req.root, train |-> req.train,
                 rand_trans |-> req.rand_trans, kwargs |-> req.kwargs]
    IN [cr EXCEPT !.constructed = Append(@, made), !.dataset = << made >>]

\* mutant: an unregistered dataset_type falls back on a registered one
create_dataset_fallback(mappings, req) ==
    LET cr == [NotCreated EXCEPT !.called = TRUE]
        key == IF req.dataset_type \in DOMAIN mappings THEN req.dataset_type
               ELSE CHOOSE k \in DOMAIN mappings : TRUE
    IN IF mappings = << >> THEN [cr EXCEPT !.exc = "Exception"]
       ELSE [construct(cr, mappings[key].constructor, req) EXCEPT
                !.num_classes = mappings[key].num_classes]

\* create_dataset(dataset_type, root, train, rand_trans, **kwargs)
create_dataset(mappings, req) ==
    LET cr == [NotCreated EXCEPT !.called = TRUE]
    IN IF req.dataset_type \notin DOMAIN mappings THEN [cr EXCEPT !.exc = "Exception"]
       ELSE [construct(cr, mappings[req.dataset_type].constructor, req) EXCEPT
                !.num_classes = mappings[req.dataset_type].num_classes]

\* the dataset types asked for, the registrations DATASET_MAPPINGS may hold,
\* and the arguments of a call
DatasetTypes == {"mnist", "cifar10", "imagenet"}
Registrations ==
    [constructor : {"MNISTDataset", "ImageFolderDataset"}, num_classes : {10, 1000}]
Mappings == UNION { [S -> Registrations] : S \in SUBSET DatasetTypes }
Requests ==
    [dataset_type : DatasetTypes, root : {"data", "tmp"}, train : BOOLEAN,
     rand_trans : BOOLEAN, kwargs : {<< >>, << "download" >>}]

\* ================================================================ actions
InitLayerCompressor ==
    /\ children = InitChildren
    /\ fwd_hooks = [m \in DOMAIN InitChildren |-> << >>]
    /\ pre_hooks = [m \in DOMAIN InitChildren |-> << >>]
    /\ next_id = 0
    /\ wrappers = << >>
    /\ calls = << >>
    /\ \E t \in Targets : layer = t.layer /\ name = t.name
    /\ handles = << >>
    /\ early_stop_handle = NoHandle
    /\ modules = [none |-> FALSE, items |-> << >>]
    /\ dataset \in Datasets
    /\ ops = << >>
    /\ exc = ""
    /\ outputs = << >>
    /\ captured = << >>
    /\ trace = << >>
    /\ calls_pre = 0
    /\ children_pre = InitChildren
    /\ layer_pre = layer
    /\ events = << >>
    /\ fail_at = 0

\* get_output_error not called yet, on empty arguments
InitError ==
    /\ unquantized = << >>
    /\ quantized = << >>
    /\ error = [called |-> FALSE, exc |-> "", num |-> 0, den |-> 1]

\* create_dataset not called yet, nothing registered
InitDataset ==
    /\ DATASET_MAPPINGS = << >>
    /\ request = [dataset_type |-> "", root |-> "", train |-> FALSE,
                  rand_trans |-> FALSE, kwargs |-> << >>]
    /\ created = NotCreated

\* the arguments of a call of get_output_error still to be made
InitGetOutputError ==
    /\ InitLayerCompressor
    /\ name = << "norm" >>
    /\ dataset = << >>
    /\ InitDataset
    /\ unquantized \in Paired
    /\ quantized \in Paired
    /\ error = [called |-> FALSE, exc |-> "", num |-> 0, den |-> 1]

\* a registry and the arguments of a call of create_dataset still to be made
InitCreateDataset ==
    /\ InitLayerCompressor
    /\ name = << "norm" >>
    /\ dataset = << >>
    /\ InitError
    /\ DATASET_MAPPINGS \in Mappings
    /\ request \in Requests
    /\ created = NotCreated

Init == InitLayerCompressor /\ InitError /\ InitDataset

\* an operation op was called and left the program in st
Called(op, st) ==
    /\ children' = st.children
    /\ fwd_hooks' = st.fwd_hooks
    /\ pre_hooks' = st.pre_hooks
    /\ next_id' = st.next_id
    /\ wrappers' = st.wrappers
    /\ calls' = st.calls
    /\ layer' = st.layer
    /\ handles' = st.handles
    /\ early_stop_handle' = st.early_stop_handle
    /\ modules' = st.modules
    /\ ops' = Append(ops, op)
    /\ exc' = st.exc
    /\ outputs' = IF st.exc = "" THEN st.outputs ELSE << >>
    /\ captured' = st.captured
    /\ trace' = st.trace
    /\ calls_pre' = Len(calls)
    /\ children_pre' = children
    /\ layer_pre' = layer
    /\ events' = st.events
    /\ fail_at' = st.injected
    /\ UNCHANGED <<name, dataset>>
    /\ UNCHANGED <<error_vars, dataset_vars>>

SetEarlyStop ==
    /\ Len(ops) < MaxOps
    /\ Called("set_early_stop", set_early_stop(Here))

ClearEarlyStop ==
    /\ Len(ops) < MaxOps
    /\ Called("clear_early_stop", clear_early_stop(Here))

PreCompress ==
    /\ Len(ops) < MaxOps
    /\ Called("pre_compress", pre_compress(Here, name))

CalibrateLayer ==
    /\ Len(ops) < MaxOps
    /\ Called("calibrate_layer", calibrate_layer(Here, Intermediates(dataset), 1))

Compress ==
    /\ Len(ops) < MaxOps
    /\ Called("compress", compress(Here))

PostCompress ==
    /\ Len(ops) < MaxOps
    /\ Called("post_compress", post_compress(Here))

RevertLayerWrappers ==
    /\ Len(ops) < MaxOps
    /\ Called("revert_layer_wrappers", revert_layer_wrappers(Here, name))

\* a calibration forward of the whole model over the dataset
ForwardPass ==
    /\ Len(ops) < MaxOps
    /\ Called("forward", run_calibration_forward(Here, dataset, 1))

\* the per-layer operations of a LayerCompressor, in any order, and forward
\* passes of the model between them
\* pre_compress() in which the construction of the i-th wrapper raises
PreCompressFailing ==
    /\ Len(ops) < MaxOps
    /\ \E i \in 1..Len(compressible_modules(Here)) :
          Called("pre_compress",
                 pre_compress([Here EXCEPT !.fail_at = i, !.injected = i], name))

\* error = get_output_error(unquantized, quantized)
GetOutputError ==
    /\ ~ error.called
    /\ error' = get_output_error(unquantized, quantized)
    /\ UNCHANGED <<lc_vars, dataset_vars, unquantized, quantized>>

\* created = create_dataset(**request)
CreateDataset ==
    /\ ~ created.called
    /\ created' = create_dataset(DATASET_MAPPINGS, request)
    /\ UNCHANGED <<lc_vars, error_vars, DATASET_MAPPINGS, request>>

Next ==
    \/ PreCompress
    \/ CalibrateLayer
    \/ Compress
    \/ PostCompress
    \/ RevertLayerWrappers
    \/ ForwardPass

Spec == Init /\ [][Next]_vars

\* the early-stop operations, with the substitutions that move self.layer
NextEarlyStop ==
    \/ SetEarlyStop
    \/ ClearEarlyStop
    \/ ForwardPass
    \/ PreCompress
    \/ RevertLayerWrappers

SpecEarlyStop == Init /\ [][NextEarlyStop]_vars

\* the lifecycle with a wrapper constructor that may raise
NextFailure ==
    \/ PreCompressFailing
    \/ PreCompress
    \/ CalibrateLayer
    \/ PostCompress
    \/ RevertLayerWrappers
SpecFailure == Init /\ [][NextFailure]_vars

\* one call of get_output_error on each pair of arguments
NextError == GetOutputError
SpecError == InitGetOutputError /\ [][NextError]_vars

\* one call of create_dataset on each registry and each request
NextDataset == CreateDataset
SpecDataset == InitCreateDataset /\ [][NextDataset]_vars

\* ================================================================= claims
Lifecycle ==
    << "pre_compress", "calibrate_layer", "compress", "post_compress",
       "revert_layer_wrappers" >>

Range(q) == { q[i] : i \in 1..Len(q) }
IsPrefix(p, q) == Len(p) <= Len(q) /\ SubSeq(q, 1, Len(p)) = p
OpIndex(op) == CHOOSE i \in 1..Len(Lifecycle) : Lifecycle[i] = op

\* q is made of lifecycle operations, each at most once, in lifecycle order
InLifecycleOrder(q) ==
    /\ Range(q) \subseteq Range(Lifecycle)
    /\ \A i, j \in 1..Len(q) : i < j => OpIndex(q[i]) < OpIndex(q[j])

\* the calls the last operation made on wrappers
NewCalls == SubSeq(calls, calls_pre + 1, Len(calls))

\* the layer the LayerCompressor was built on and its compressible modules,
\* as they were before any operation
Layer0 == attrgetter(InitChildren, "model", name)
Subset0 == get_prunable_layers(InitChildren, Layer0)

\* some pre_compress / revert_layer_wrappers was called before the last operation
PreparedBefore ==
    \E i \in 1..(Len(ops) - 1) : ops[i] \in {"pre_compress", "revert_layer_wrappers"}

\* revert_layer_wrappers was called before the last operation, and no
\* pre_compress since
RevertedBefore ==
    \E i \in 1..(Len(ops) - 1) :
        /\ ops[i] = "revert_layer_wrappers"
        /\ \A j \in (i + 1)..(Len(ops) - 1) : ops[j] # "pre_compress"

\* post_compress was called before the last operation, and no pre_compress since
HooksRemovedBefore ==
    \E i \in 1..(Len(ops) - 1) :
        /\ ops[i] = "post_compress"
        /\ \A j \in (i + 1)..(Len(ops) - 1) : ops[j] # "pre_compress"

\* the operations so far are one pass from pre_compress to
\* revert_layer_wrappers, with any of calibrate_layer, compress, post_compress
\* between them in lifecycle order
RoundTrip ==
    /\ Len(ops) >= 2
    /\ Head(ops) = "pre_compress"
    /\ Last(ops) = "revert_layer_wrappers"
    /\ InLifecycleOrder(ops)

\* C1: pre_compress, then any of calibrate_layer, compress, post_compress in
\* lifecycle order, then revert_layer_wrappers: every compressible module's
\* name is bound again to the original module object, and the whole tree is
\* the tree before pre_compress (the root-model substitution included).
C1_BijectiveSubstitution ==
    RoundTrip =>
        /\ exc = ""
        /\ \A i \in 1..Len(Subset0) :
              attrgetter(children, "model", name \o Subset0[i].name) = Subset0[i].mod
        /\ \A m \in DOMAIN InitChildren : children[m] = InitChildren[m]
C1_Witness ==
    /\ RoundTrip
    /\ Len(ops) = Len(Lifecycle)
    /\ name = <<"lm_head">>
    /\ Subset0 = << [name |-> << >>, mod |-> "lm_head"] >>
    /\ children_pre["model"][3].mod = "w1"
    /\ children["model"][3].mod = "lm_head"

\* C2: the first pre_compress of a LayerCompressor leaves one registered hook
\* handle per compressible module; after post_compress the handle list is
\* empty and no forward hook is registered on any module; and a forward pass
\* (of the model, or of calibrate_layer) after post_compress invokes nothing
\* on any wrapper.
C2_HookLifecycleBalance ==
    /\ (Len(ops) >= 1 /\ Last(ops) = "pre_compress" /\ ~ PreparedBefore) =>
          /\ exc = ""
          /\ Len(handles) = Len(Subset0)
          /\ \A i \in 1..Len(handles) :
                \E k \in 1..Len(fwd_hooks[handles[i].obj]) :
                    fwd_hooks[handles[i].obj][k].id = handles[i].id
          /\ \A i, j \in 1..Len(handles) : i # j => handles[i].id # handles[j].id
    /\ (Len(ops) >= 1 /\ Last(ops) = "post_compress") =>
          /\ exc = ""
          /\ handles = << >>
          /\ \A m \in DOMAIN fwd_hooks : fwd_hooks[m] = << >>
    /\ (Len(ops) >= 1 /\ Last(ops) \in {"forward", "calibrate_layer"} /\ HooksRemovedBefore) =>
          NewCalls = << >>
C2_Witness ==
    /\ ops = << "pre_compress", "calibrate_layer", "post_compress", "forward" >>
    /\ name = <<"layers0">>
    /\ Len(dataset) >= 1
    /\ \E i \in 1..Len(calls) : calls[i].op = "add_batch"
    /\ \E i \in 1..Len(trace) : trace[i].mod = "w1"
    /\ NewCalls = << >>

\* C3: a second revert_layer_wrappers right after the first does not raise and
\* leaves the module tree as it was.
C3_IdempotentRevert ==
    (Len(ops) >= 2 /\ Last(ops) = "revert_layer_wrappers"
        /\ ops[Len(ops) - 1] = "revert_layer_wrappers") =>
        /\ exc = ""
        /\ children = children_pre

\* C4: after revert_layer_wrappers and without a new pre_compress, compress or
\* revert_layer_wrappers raises or does nothing: no call on any wrapper, no
\* change of the module tree.
C4_NoStaleAction ==
    (Len(ops) >= 2 /\ Last(ops) \in {"compress", "revert_layer_wrappers"}
        /\ RevertedBefore) =>
        \/ exc # ""
        \/ NewCalls = << >> /\ children = children_pre

\* the modules below obj, children before their parent, left to right
RECURSIVE DepthFirst(_, _)
DepthFirst(ch, obj) ==
    LET kids == ch[obj]
        sub[i \in 0..Len(kids)] ==
            IF i = 0 THEN << >> ELSE sub[i - 1] \o DepthFirst(ch, kids[i].mod)
    IN sub[Len(kids)] \o << obj >>

RECURSIVE CompressThenFree(_)
CompressThenFree(ws) ==
    IF ws = << >> THEN << >>
    ELSE << [w |-> Head(ws), op |-> "compress", src |-> 0],
            [w |-> Head(ws), op |-> "free", src |-> 0] >> \o CompressThenFree(Tail(ws))

\* C5: a compress() that returns has called, for each wrapper installed in the
\* layer, in depth-first order, compress and then free, once each and before
\* the next wrapper's; nothing is called on a module that is no wrapper.
C5_CompressOrder ==
    (Len(ops) >= 1 /\ Last(ops) = "compress" /\ exc = "") =>
        NewCalls = CompressThenFree(
            SelectSeq(DepthFirst(children, layer), LAMBDA m : m \in DOMAIN wrappers))
C5_Witness ==
    /\ ops = << "pre_compress", "calibrate_layer", "compress" >>
    /\ exc = ""
    /\ name = <<"layers0">>
    /\ Len(NewCalls) = 4
    /\ NewCalls[1].w = "w1" /\ NewCalls[3].w = "w2"

\* the calls made on wrapper w, in order
CallsOn(w) == SelectSeq(calls, LAMBDA c : c.w = w)

\* the log of a wrapper after the first n operations of the lifecycle
ExpectedLog(w, n) ==
    (IF n >= 2 THEN [i \in 1..Len(dataset) |-> [w |-> w, op |-> "add_batch", src |-> dataset[i]]]
     ELSE << >>)
    \o (IF n >= 3 THEN CompressThenFree(<< w >>) ELSE << >>)

\* C6: along pre_compress, calibrate_layer, compress, post_compress,
\* revert_layer_wrappers nothing raises, there is one wrapper per compressible
\* module, and each wrapper has received one add_batch per sample in sample
\* order, then one compress, then one free, and nothing after the free; at the
\* end the tree holds the original modules.
C6_WrapperLifecycle ==
    IsPrefix(ops, Lifecycle) =>
        /\ exc = ""
        /\ Cardinality(DOMAIN wrappers) = (IF Len(ops) >= 1 THEN Len(Subset0) ELSE 0)
        /\ \A w \in DOMAIN wrappers : CallsOn(w) = ExpectedLog(w, Len(ops))
        /\ Len(ops) = Len(Lifecycle) =>
              /\ \A w \in DOMAIN wrappers : Freed(calls, w)
              /\ \A m \in DOMAIN InitChildren : children[m] = InitChildren[m]
C6_Witness ==
    /\ ops = Lifecycle
    /\ name = <<"layers0">>
    /\ Len(dataset) >= 2
    /\ DOMAIN wrappers = {"w1", "w2"}
    /\ Len(CallsOn("w2")) = Len(dataset) + 2

\* the modules of a tree that compute (no children), in forward order
Leaves(ch, obj) ==
    SelectSeq(named_modules(ch, obj, << >>), LAMBDA e : ch[e.mod] = << >>)
LeafPath(ch, obj) == [i \in 1..Len(Leaves(ch, obj)) |-> Leaves(ch, obj)[i].mod]

\* C7: a calibrate_layer that returns has run each intermediate through the
\* layer once, in order, and returns one entry per intermediate: the layer's
\* output for it (on the host) and the intermediate's own keyword arguments.
C7_CalibrateOutputs ==
    (Len(ops) >= 1 /\ Last(ops) = "calibrate_layer" /\ exc = "") =>
        /\ Len(outputs) = Len(dataset)
        /\ \A i \in 1..Len(dataset) :
              outputs[i] =
                [output |-> [src |-> dataset[i], path |-> LeafPath(InitChildren, Layer0),
                             dev |-> "cpu"],
                 kwargs |-> Intermediates(dataset)[i].kwargs]
        /\ LET runs == SelectSeq(trace, LAMBDA e : e.mod = layer)
           IN runs = [i \in 1..Len(dataset) |-> [mod |-> layer, src |-> dataset[i]]]
C7_Witness ==
    /\ ops = << "pre_compress", "calibrate_layer" >>
    /\ exc = ""
    /\ name = <<"layers0">>
    /\ Len(outputs) >= 2
    /\ outputs[1].output.path = << "q", "ln", "fc" >>

\* the forward pre-hooks registered, over all modules
RECURSIVE CountPreHooks(_)
CountPreHooks(ms) ==
    IF ms = {} THEN 0
    ELSE LET m == CHOOSE x \in ms : TRUE
         IN Len(pre_hooks[m]) + CountPreHooks(ms \ {m})

\* C8: after any sequence of set_early_stop and clear_early_stop, one
\* early-stop hook is registered while early_stop_handle is set, and none
\* otherwise.
C8_OneEarlyStopHook ==
    CountPreHooks(DOMAIN pre_hooks) = (IF early_stop_handle.set THEN 1 ELSE 0)

\* the position of the layer in the model, and the modules of the layers before it
LayerPos == CHOOSE k \in 1..Len(InitChildren["model"]) : InitChildren["model"][k].mod = Layer0
EarlierLeaves ==
    LET pre[k \in 0..(LayerPos - 1)] ==
            IF k = 0 THEN << >>
            ELSE pre[k - 1] \o LeafPath(InitChildren, InitChildren["model"][k].mod)
    IN pre[LayerPos - 1]
EarlierModules ==
    {"model"} \cup UNION { Range([i \in 1..Len(named_modules(InitChildren, InitChildren["model"][k].mod, << >>)) |->
                                    named_modules(InitChildren, InitChildren["model"][k].mod, << >>)[i].mod]) :
                           k \in 1..(LayerPos - 1) }

\* the early-stop hook is installed on the module the model calls as the layer
EarlyStopInstalled == pre_hooks[attrgetter(children, "model", name)] # << >>

\* C9: with the early-stop hook installed on the layer, a calibration forward
\* over N samples captures N intermediates, in sample order, each the (args,
\* kwargs) the layer was called with, and neither the layer nor any module
\* after it computes.
C9_EarlyStopCaptures ==
    (Len(ops) >= 1 /\ Last(ops) = "forward" /\ EarlyStopInstalled) =>
        /\ exc = ""
        /\ captured = [i \in 1..Len(dataset) |->
              [args |-> [src |-> dataset[i], path |-> EarlierLeaves, dev |-> "cuda"],
               kwargs |-> Kwargs(dataset[i], "cuda")]]
        /\ \A i \in 1..Len(trace) : trace[i].mod \in EarlierModules
C9_Witness ==
    /\ Len(ops) >= 2
    /\ Last(ops) = "forward"
    /\ EarlyStopInstalled
    /\ name = <<"lm_head">>
    /\ Len(captured) >= 2
    /\ captured[1].args.path = << "q", "ln", "fc", "ln_f" >>

\* C10: after a lifecycle that ended with revert_layer_wrappers, a new
\* pre_compress succeeds and prepares the layer again: a wrapper registry with
\* one installed wrapper per compressible module.
C10_ReusableAfterRevert ==
    (Len(ops) >= 3 /\ Last(ops) = "pre_compress"
        /\ LET before == SubSeq(ops, 1, Len(ops) - 1)
           IN /\ Head(before) = "pre_compress"
              /\ Last(before) = "revert_layer_wrappers"
              /\ InLifecycleOrder(before)) =>
        /\ exc = ""
        /\ ~ modules.none
        /\ Len(modules.items) = Len(Subset0)

\* C11: for a layer with no compressible module the lifecycle runs without
\* error and changes nothing: no wrapper, no registry entry, no hook handle,
\* no call on a wrapper, the tree as it was; calibrate_layer still returns
\* one output per intermediate, the layer's own output moved to the host.
C11_ZeroCompressibleNoOp ==
    (IsPrefix(ops, Lifecycle) /\ Subset0 = << >>) =>
        /\ exc = ""
        /\ DOMAIN wrappers = {}
        /\ modules.items = << >>
        /\ handles = << >>
        /\ \A m \in DOMAIN fwd_hooks : fwd_hooks[m] = << >>
        /\ calls = << >>
        /\ children = InitChildren
        /\ (Len(ops) >= 1 /\ Last(ops) = "calibrate_layer") =>
              outputs = [i \in 1..Len(dataset) |->
                  [output |-> [src |-> dataset[i], path |-> << Layer0 >>, dev |-> "cpu"],
                   kwargs |-> Kwargs(dataset[i], "cpu")]]
C11_Witness ==
    /\ ops = Lifecycle
    /\ name = <<"norm">>
    /\ Subset0 = << >>
    /\ Len(dataset) >= 1
    /\ children = InitChildren

\* C20: when a lifecycle operation ends, self.layer is the module found at
\* path self.name in the model tree.
C20_LayerInTree ==
    (Len(ops) >= 1 /\ Last(ops) \in Range(Lifecycle)) =>
        layer = attrgetter(children, "model", name)

\* the gathering contexts held after the first k events of the last operation
Held(k) ==
    LET stack[j \in 0..k] ==
            IF j = 0 THEN << >>
            ELSE IF events[j].ev = "enter" THEN Append(stack[j - 1], events[j].obj)
            ELSE IF events[j].ev = "exit" THEN Front(stack[j - 1])
            ELSE stack[j - 1]
    IN stack[k]

\* every context left is the innermost one held, and none is held at the end
ContextsScoped ==
    /\ \A k \in 1..Len(events) :
          events[k].ev = "exit" =>
              Held(k - 1) # << >> /\ Last(Held(k - 1)) = events[k].obj
    /\ Held(Len(events)) = << >>

Swapping == Len(ops) >= 1 /\ Last(ops) \in {"pre_compress", "revert_layer_wrappers"}

C18_FailureLeavesPartialWrap ==
    (Len(ops) >= 1 /\ Last(ops) = "pre_compress" /\ fail_at > 0 /\ ~ PreparedBefore) =>
        /\ exc = "RuntimeError"
        /\ modules = [none |-> FALSE,
                      items |-> [k \in 1..(fail_at - 1) |->
                                    [name |-> Subset0[k].name, wrapper |-> WrapperId(k)]]]
        /\ DOMAIN wrappers = {WrapperId(k) : k \in 1..(fail_at - 1)}
        /\ \A k \in 1..Len(Subset0) :
              attrgetter(children, "model", name \o Subset0[k].name)
                  = IF k < fail_at THEN WrapperId(k) ELSE Subset0[k].mod
        /\ \A k \in 1..(fail_at - 1) :
              getattr(children, WrapperId(k), "layer") = Subset0[k].mod
        /\ handles = << >>
        /\ \A m \in DOMAIN fwd_hooks : fwd_hooks[m] = << >>
        /\ calls = << >>
C18_Witness ==
    /\ ops = << "pre_compress" >>
    /\ fail_at = 2
    /\ exc = "RuntimeError"
    /\ Len(modules.items) = 1
    /\ attrgetter(children, "model", name \o Subset0[1].name) = "w1"
    /\ attrgetter(children, "model", name \o Subset0[2].name) = Subset0[2].mod

\* C19: in any order of the operations and forward passes, whenever a
\* statistics hook fires self.modules holds the wrapper of the hook's name
\* and that wrapper has not been freed.
C19_HookFiresOnLiveWrapper ==
    \A k \in 1..Len(events) :
        events[k].ev = "hook" =>
            /\ events[k].obj # Missing
            /\ exc # "FreedWrapperError"

\* the two flattened output lists of the call
FlatUnquantized == flatten(unquantized, 1)
FlatQuantized == flatten(quantized, 1)
Flattened == FlatUnquantized.exc = "" /\ FlatQuantized.exc = ""

\* C12: get_output_error(X, X) returns zero and does not raise, for any
\* paired sequence X.
C12_SelfErrorIsZero ==
    (error.called /\ unquantized = quantized) => error.exc = "" /\ error.num = 0

\* C13 as stated: the call raises ValueError whenever the two arguments have
\* different numbers of paired entries.
C13_EntryCountMismatchRaises ==
    (error.called /\ Len(unquantized) # Len(quantized)) => error.exc = "ValueError"

\* every entry of the paired sequence flattens to n outputs
EntriesFlattenTo(entries, n) ==
    \A i \in 1..Len(entries) :
        outputs_list(entries[i][1]).exc = "" /\ Len(outputs_list(entries[i][1]).outs) = n

\* C13, amended: the call raises ValueError whenever the flattened output
\* lists differ in length; arguments with different numbers of entries raise
\* it when every entry flattens to the same positive number of outputs, and
\* need not when the flattened lengths coincide.
C13_FlattenedMismatchRaises ==
    error.called =>
        /\ (Flattened /\ Len(FlatUnquantized.outs) # Len(FlatQuantized.outs))
              => error.exc = "ValueError"
        /\ \A n \in 1..2 :
              ( /\ EntriesFlattenTo(unquantized, n)
                /\ EntriesFlattenTo(quantized, n)
                /\ Len(unquantized) # Len(quantized) ) => error.exc = "ValueError"
        /\ (Flattened /\ Len(FlatUnquantized.outs) = Len(FlatQuantized.outs))
              => error.exc # "ValueError"
C13_Witness ==
    /\ error.called
    /\ unquantized = << << Tuple(<< Vector(<< 1 >>) >>), "kwargs" >>,
                        << Tuple(<< Vector(<< 1 >>) >>), "kwargs" >> >>
    /\ quantized = << << Tuple(<< Vector(<< 1 >>) >>), "kwargs" >> >>
    /\ error.exc = "ValueError"

\* C14: ValueError is raised exactly when the flattened lists differ in
\* length, whatever the tensor counts are; with equal lengths and different
\* tensor counts the call fails with AssertionError; a call that raises
\* returns no number.
C14_FailureModes ==
    error.called =>
        /\ error.exc = "ValueError"
              <=> (Flattened /\ Len(FlatUnquantized.outs) # Len(FlatQuantized.outs))
        /\ error.exc = "AssertionError"
              <=> ( /\ Flattened
                    /\ Len(FlatUnquantized.outs) = Len(FlatQuantized.outs)
                    /\ CountTensors(FlatUnquantized.outs) # CountTensors(FlatQuantized.outs) )
        /\ error.exc # "" => error.num = 0 /\ error.den = 1
C14_Witness ==
    /\ error.called
    /\ error.exc = "AssertionError"
    /\ Len(FlatUnquantized.outs) = 2
    /\ Len(FlatQuantized.outs) = 2
    /\ CountTensors(FlatUnquantized.outs) = 1
    /\ CountTensors(FlatQuantized.outs) = 2

\* the positions where both flattened lists hold a tensor, and the sum of
\* the L1 losses over them as a fraction
CommonTensors ==
    { i \in 1..Len(FlatUnquantized.outs) :
        IsTensor(FlatUnquantized.outs[i]) /\ IsTensor(FlatQuantized.outs[i]) }
RECURSIVE CommonLosses(_)
CommonLosses(i) ==
    IF i > Len(FlatUnquantized.outs) THEN [num |-> 0, den |-> 1]
    ELSE IF i \notin CommonTensors THEN CommonLosses(i + 1)
    ELSE LET l == l1_loss(FlatUnquantized.outs[i], FlatQuantized.outs[i])
             rest == CommonLosses(i + 1)
         IN [num |-> l.num * rest.den + rest.num * l.den, den |-> l.den * rest.den]

\* C15: with equal flattened lengths and equal tensor counts (at least one
\* tensor) the call returns the sum of the L1 losses over the positions that
\* hold a tensor on both sides, divided by the number of those positions,
\* and the other positions cause no error.
C15_MeanOverCommonTensors ==
    ( /\ error.called
      /\ Flattened
      /\ Len(FlatUnquantized.outs) = Len(FlatQuantized.outs)
      /\ CountTensors(FlatUnquantized.outs) = CountTensors(FlatQuantized.outs)
      /\ CountTensors(FlatQuantized.outs) >= 1 ) =>
        /\ error.exc = ""
        /\ Cardinality(CommonTensors) >= 1
        /\ error.num * CommonLosses(1).den * Cardinality(CommonTensors)
              = CommonLosses(1).num * error.den

\* C16: for a dataset_type that is not a key of DATASET_MAPPINGS the call
\* raises and no constructor was invoked; for a registered one the registered
\* constructor was invoked once with the arguments of the call and the result
\* is the dataset it made with the registered number of classes.
C16_CreateDatasetFailsFast ==
    created.called =>
        IF request.dataset_type \notin DOMAIN DATASET_MAPPINGS
        THEN /\ created.exc = "Exception"
             /\ created.constructed = << >>
             /\ created.dataset = << >>
        ELSE LET entry == DATASET_MAPPINGS[request.dataset_type]
                 made == [constructor |-> entry.constructor, root |-> request.root,
                          train |-> request.train, rand_trans |-> request.rand_trans,
                          kwargs |-> request.kwargs]
             IN /\ created.exc = ""
                /\ created.constructed = << made >>
                /\ created.dataset = << made >>
                /\ created.num_classes = entry.num_classes
C16_Witness ==
    /\ created.called
    /\ DOMAIN DATASET_MAPPINGS = {"mnist", "cifar10"}
    /\ request.dataset_type = "imagenet"
    /\ created.exc = "Exception"
    /\ created.constructed = << >>

====
